---- MODULE Spec2Model ----
(***************************************************************************)
(* Model of the request executor of the An-Americano permission client     *)
(* (src/client.go): Client.doRequest with its retry loop, the four         *)
(* authenticators it consults, and the caller context it observes.         *)
(*                                                                         *)
(* One logical call of doRequest is followed from its entry to its return. *)
(* The transport (fasthttp DoTimeout), the token provider and the caller   *)
(* context are the environment: their outcomes are chosen from small sets. *)
(***************************************************************************)
EXTENDS Integers, Sequences, FiniteSets, TLC

(***************************************************************************)
(* Bounds of the model                                                     *)
(***************************************************************************)
\* largest MaxRetries option the caller supplies to NewClient
MaxRetriesBound == 2

\* stamps applied in a row to one request
MaxStamps == 4

\* status codes an *APIError is classified for: MinStatus..MaxStatus
MinStatus == 0 - 1
MaxStatus == 600

(***************************************************************************)
(* Program constants                                                       *)
(***************************************************************************)
StatusTooManyRequests == 429
StatusBadRequest == 400
StatusUnauthorized == 401
StatusForbidden == 403
StatusNotFound == 404

\* defaults of NewClient; durations are in seconds
defaultTimeout == 30
defaultMaxRetries == 3
defaultRetryDelay == 1
defaultMaxConnsPerHost == 512
defaultMaxIdleConnDuration == 10
baseURL == "https://accounts.ana.st"

\* HTTP status codes the transport may answer with
Statuses == {200, 302, 404, 429, 500}

\* value of the "status" field of a decodable error body; 0 is an absent field
BodyStatuses(s) == {0, 404, 500, s}

\* shape of a response body
\*   "empty"   no bytes
\*   "valid"   JSON that json.Unmarshal accepts for its target
\*   "invalid" bytes json.Unmarshal rejects for its target
BodyKinds == {"empty", "valid", "invalid"}

\* failures of fasthttp's DoTimeout
TransportFailures == {"timeout", "connection refused"}

\* token strings; "" is the empty token
Tokens == {"", "t1", "t2"}

\* what a context carries under tokenContextKey: nothing, or a string
CtxTokens == {"absent"} \cup Tokens

\* token attached to the context of another call on the same client
OtherToken == "t2"

\* what TokenProvider.GetToken returns: (token, err)
ProviderResults ==
    {[token |-> t, err |-> FALSE] : t \in Tokens} \cup {[token |-> "", err |-> TRUE]}

\* the provider has not been asked yet
NotAsked == [token |-> "", err |-> FALSE]

AuthKinds == {"nil", "bearer", "oauth", "dynamic", "context"}

\* no facade operation was called
NoArgs == [nil |-> TRUE]

\* method and path of a direct call of doRequest
DirectMethod == "GET"
DirectPath == "/"

\* an authenticator handed to the client, and when
Installed(kind, token, when) == [kind |-> kind, token |-> token, when |-> when]

VARIABLES
    \* ---- Client ----
    authKind,     \* dynamic type of c.auth ("nil": c.auth == nil)
    authToken,    \* BearerTokenAuth.Token / OAuthTokenAuth.AccessToken
    authCtx,      \* ctx field of ContextTokenAuth / DynamicTokenAuth: "nil", "call"
                  \* (the context of the call followed) or "other" (the context
                  \* of another call on the same client)
    options,      \* the ClientOptions object c.options points to
    optsArg,      \* the opts argument as it was passed to NewClient
    \* ---- the call of doRequest ----
    pc,           \* "idle", "backoff", "attempt", "inflight", "done"
    attempt,      \* loop variable of the retry loop
    lastErr,      \* lastErr
    callerBody,   \* the caller's body object: "nil", "value", "changed", "unmarshalable"
    jsonData,     \* marshalled request body: "none" or the bytes
    hasSink,      \* result != nil
    sink,         \* state of the caller's result object
    req,          \* the request of the current attempt
    result,       \* the error doRequest returned (Nil: success)
    \* ---- caller context ----
    ctxToken,     \* value stored by WithToken, or "absent"
    ctxErr,       \* ctx.Err(): "none", "canceled", "deadline exceeded"
    \* ---- history of the call ----
    stamps,       \* invocations of the authenticator
    provided,     \* what Provider.GetToken returned to the latest stamp of a
                  \* DynamicTokenAuth
    sends,        \* invocations of the transport
    started,      \* attempts begun
    lastOut,      \* outcome of the latest finished attempt
    uniform,      \* class of all finished attempts when they agree
    prev500,      \* every attempt before the latest got 500 with a decodable body
    retryableOnly,\* every finished attempt ended in a transport failure, a 5xx or a
                  \* 429 with a decodable body
    cancelledAt,  \* pc of the call when its context was cancelled
    answers,      \* what the methods the caller asked of a value answered:
                  \* pairs <<method, answer>>
    installed,    \* the authenticator last passed to NewClient or SetAuth, and
                  \* when: "NewClient", "before the call", "during the call"
    waits,        \* the delays the backoff timers of the call were armed with and
                  \* ran out, in order
    pool,         \* pooled request and response objects of the call: acquired
                  \* and not released, and totals of acquires and releases
    \* ---- the facade call ----
    op,           \* facade operation called ("none": doRequest called directly)
    args,         \* its request object or arguments
    method,       \* method parameter of doRequest
    url           \* url of doRequest: baseURL + path

clientVars == <<authKind, authToken, authCtx, options, optsArg>>
callVars   == <<pc, attempt, lastErr, callerBody, jsonData, hasSink, sink, req, result>>
ctxVars    == <<ctxToken, ctxErr>>
histVars   == <<stamps, provided, sends, started, lastOut, uniform, prev500, retryableOnly,
                cancelledAt, answers, installed, waits, pool>>
facadeVars == <<op, args, method, url>>
vars       == <<clientVars, callVars, ctxVars, histVars, facadeVars>>

\* c.options.MaxRetries
maxRetries == options.MaxRetries

(***************************************************************************)
(* NewClient: resolution of the options                                    *)
(***************************************************************************)
\* opts == nil
NilOptions == [nil |-> TRUE]

\* a field left at its zero value takes the default
OrDefault(v, def) == IF v = 0 THEN def ELSE v

\* variant that takes a supplied options object as it is
NewClientOptionsAllOrNothing(opts) ==
    IF opts = NilOptions
    THEN [Timeout |-> defaultTimeout,
          MaxRetries |-> defaultMaxRetries,
          RetryDelay |-> defaultRetryDelay,
          Logger |-> "nil",
          MaxConnsPerHost |-> defaultMaxConnsPerHost,
          MaxIdleConnDuration |-> defaultMaxIdleConnDuration]
    ELSE opts

\* the options object of the client NewClient(auth, opts) returns
NewClientOptions(opts) ==
    LET o == IF opts = NilOptions
             THEN [Timeout |-> defaultTimeout,
                   MaxRetries |-> defaultMaxRetries,
                   RetryDelay |-> defaultRetryDelay,
                   Logger |-> "nil",
                   MaxConnsPerHost |-> defaultMaxConnsPerHost,
                   MaxIdleConnDuration |-> defaultMaxIdleConnDuration]
             ELSE opts
    IN  [Timeout |-> OrDefault(o.Timeout, defaultTimeout),
         MaxRetries |-> OrDefault(o.MaxRetries, defaultMaxRetries),
         RetryDelay |-> OrDefault(o.RetryDelay, defaultRetryDelay),
         Logger |-> o.Logger,
         MaxConnsPerHost |-> OrDefault(o.MaxConnsPerHost, defaultMaxConnsPerHost),
         MaxIdleConnDuration |-> OrDefault(o.MaxIdleConnDuration, defaultMaxIdleConnDuration)]

\* options in which only MaxRetries is supplied
OnlyMaxRetries(m) ==
    [Timeout |-> 0, MaxRetries |-> m, RetryDelay |-> 0, Logger |-> "nil",
     MaxConnsPerHost |-> 0, MaxIdleConnDuration |-> 0]

(***************************************************************************)
(* Error values                                                            *)
(***************************************************************************)
Nil == [kind |-> "nil"]

\* fmt.Errorf("failed to marshal request body: %w", marshalErr)
MarshalError == [kind |-> "failed to marshal request body"]

\* fmt.Errorf("authentication failed: %w", err)
AuthError(msg) == [kind |-> "authentication failed", cause |-> msg]

\* fmt.Errorf("request failed: %w", err)
TransportError(f) == [kind |-> "request failed", cause |-> f]

\* fmt.Errorf("failed to unmarshal response: %w", err)
UnmarshalError == [kind |-> "failed to unmarshal response"]

\* fmt.Errorf("HTTP %d: %s", statusCode, string(bodyBytes))
HTTPError(status, body) == [kind |-> "HTTP", status |-> status, body |-> body]

\* &apiErr, decoded from the body; Status is the body's "status" field
APIError(bstatus) == [kind |-> "APIError", status |-> bstatus]

\* fmt.Errorf("max retries exceeded: %w", lastErr)
MaxRetriesExceeded(e) == [kind |-> "max retries exceeded", cause |-> e]

\* ctx.Err()
CtxError(e) == [kind |-> "context", cause |-> e]

(***************************************************************************)
(* Authenticators                                                          *)
(***************************************************************************)
StampOK(token) == [ok |-> TRUE, header |-> "Bearer " \o token, err |-> ""]
StampFail(msg) == [ok |-> FALSE, header |-> "", err |-> msg]

\* variant that stamps whatever token it holds
BearerTokenAuthUnchecked(token) == StampOK(token)

BearerTokenAuth(token) ==
    IF token = "" THEN StampFail("bearer token is empty") ELSE StampOK(token)

OAuthTokenAuth(token) ==
    IF token = "" THEN StampFail("oauth access token is empty") ELSE StampOK(token)

\* p is what Provider.GetToken(ctx) returned
DynamicTokenAuth(p) ==
    IF p.err THEN StampFail("failed to get token")
    ELSE IF p.token = "" THEN StampFail("token is empty")
    ELSE StampOK(p.token)

\* actx is the ctx field, carried the value the referenced context carries
ContextTokenAuth(actx, carried) ==
    IF actx = "nil" THEN StampFail("no context set")
    ELSE IF carried = "absent" \/ carried = "" THEN StampFail("no token found in context")
    ELSE StampOK(carried)

\* the token carried by the context the ctx field refers to
CtxValue(actx, callToken) ==
    IF actx = "call" THEN callToken
    ELSE IF actx = "other" THEN OtherToken
    ELSE "absent"

\* the provider's latest answer once a DynamicTokenAuth asked it for p
Asked(kind, p, old) == IF kind = "dynamic" THEN p ELSE old

\* c.auth.AuthenticateFastHTTP(req) by dynamic type
AuthenticateFastHTTP(kind, token, actx, carried, p) ==
    CASE kind = "bearer"  -> BearerTokenAuth(token)
      [] kind = "oauth"   -> OAuthTokenAuth(token)
      [] kind = "dynamic" -> DynamicTokenAuth(p)
      [] kind = "context" -> ContextTokenAuth(actx, carried)

(***************************************************************************)
(* Requests and attempt outcomes                                           *)
(***************************************************************************)
\* no request is held between attempts (fasthttp.ReleaseRequest)
NoRequest ==
    [acquired |-> FALSE, method |-> "", uri |-> "", body |-> "none", authorization |-> <<>>]

\* body arguments of doRequest
Bodies == {"nil", "value", "unmarshalable"}

\* json.Marshal(body) for the bodies that can be marshalled
Marshal(b) ==
    CASE b = "nil"     -> "none"
      [] b = "value"   -> "bytes"
      [] b = "changed" -> "changed bytes"

\* variant that marshals the body object again for each attempt
RequestBodyRemarshalled(data, obj) == Marshal(obj)

\* the bytes an attempt puts into its request: the ones marshalled at entry
RequestBody(data, obj) == data

\* fasthttp.AcquireRequest, SetRequestURI, SetMethod, SetBody
NewRequest(data) ==
    [acquired |-> TRUE, method |-> method, uri |-> url, body |-> data, authorization |-> <<>>]

\* req.Header.Set("Authorization", v): the values of the header become <<v>>
\* variant with req.Header.Add, which keeps the values already present
AddAuthorization(r, v) == [r EXCEPT !.authorization = Append(@, v)]

SetAuthorization(r, v) == [r EXCEPT !.authorization = <<v>>]

\* variant in which the stamp leaves the request as it was built
StampedLeavesRequest(r, st) == r

\* the request after AuthenticateFastHTTP returned st: stamped only on success
Stamped(r, st) == IF st.ok THEN SetAuthorization(r, st.header) ELSE r

NoOutcome == [t |-> "none", status |-> 0, body |-> "none", bstatus |-> 0, cause |-> ""]
AuthFailed(msg) == [t |-> "authfail", status |-> 0, body |-> "none", bstatus |-> 0, cause |-> msg]
TransportFailed(f) == [t |-> "neterr", status |-> 0, body |-> "none", bstatus |-> 0, cause |-> f]
Responded(s, b, bs) == [t |-> "resp", status |-> s, body |-> b, bstatus |-> bs, cause |-> ""]

\* the outcomes DoTimeout can produce
Responses ==
    {Responded(s, b, 0) : s \in Statuses, b \in {"empty", "invalid"}}
    \cup {Responded(s, "valid", 0) : s \in {t \in Statuses : t >= 200 /\ t < 300}}
    \cup UNION {{Responded(s, "valid", bs) : bs \in BodyStatuses(s)} :
                s \in {t \in Statuses : ~(t >= 200 /\ t < 300)}}

\* class of an outcome: what was answered, without the decoded fields
Class(o) == [t |-> o.t, status |-> o.status, body |-> o.body]
NoClass == Class(NoOutcome)
Mixed   == [t |-> "mixed", status |-> 0, body |-> "none"]

(***************************************************************************)
(* doRequest: handling of one response (the attempt closure after          *)
(* DoTimeout returned a response)                                          *)
(***************************************************************************)
IsSuccess(statusCode) == statusCode >= 200 /\ statusCode < 300

\* variant that reports success for a 2xx body that could not be decoded
HandleResponseSwallows(o, wantResult) ==
    IF IsSuccess(o.status)
    THEN Nil
    ELSE IF o.body # "valid"
         THEN HTTPError(o.status, o.body)
         ELSE APIError(o.bstatus)

\* the error the closure returns for a response
HandleResponse(o, wantResult) ==
    IF IsSuccess(o.status)
    THEN IF wantResult /\ o.body # "empty"
         THEN IF o.body = "valid" THEN Nil ELSE UnmarshalError
         ELSE Nil
    ELSE IF o.body # "valid"
         THEN HTTPError(o.status, o.body)
         ELSE APIError(o.bstatus)

\* variant that decodes the body of any response into the result object
SinkAfterAnyStatus(o, wantResult, old) ==
    IF wantResult /\ o.body # "empty"
    THEN IF o.body = "valid" THEN "decoded" ELSE "partial"
    ELSE old

\* the caller's result object after the closure handled a response
SinkAfter(o, wantResult, old) ==
    IF IsSuccess(o.status) /\ wantResult /\ o.body # "empty"
    THEN IF o.body = "valid" THEN "decoded" ELSE "partial"
    ELSE old

(***************************************************************************)
(* doRequest: classification of the closure's error and the loop           *)
(***************************************************************************)
\* err.(*APIError) with a 4xx status other than 429
IsTerminal(err) ==
    /\ err.kind = "APIError"
    /\ err.status >= 400 /\ err.status < 500
    /\ err.status # StatusTooManyRequests

\* variant of the backoff delay that does not grow with the attempt
BackoffDelayConstant(k) == options.RetryDelay

\* backoffDelay := c.options.RetryDelay * time.Duration(attempt)
BackoffDelay(k) == options.RetryDelay * k

\* no pooled object was acquired yet
NoPool == [requests |-> 0, responses |-> 0, acquires |-> 0, releases |-> 0]

\* fasthttp.AcquireRequest() and fasthttp.AcquireResponse() at the top of the closure
Acquire(p) ==
    [p EXCEPT !.requests = @ + 1, !.responses = @ + 1, !.acquires = @ + 2]

\* variant of the deferred releases that gives back the request only
ReleaseRequestOnly(p) ==
    [p EXCEPT !.requests = @ - 1, !.releases = @ + 1]

\* the deferred ReleaseResponse(resp) and ReleaseRequest(req) when the closure returns
Release(p) ==
    [p EXCEPT !.requests = @ - 1, !.responses = @ - 1, !.releases = @ + 2]

\* variant of the loop condition that stops one attempt early
LoopContinuesOneShort(k) == k < maxRetries

\* loop condition of the retry loop
LoopContinues(k) == k <= maxRetries

\* variant of the abort that reports the cancellation as retry exhaustion
BackoffAbortAsExhaustion(e) == MaxRetriesExceeded(lastErr)

\* what the select of the backoff wait returns when ctx.Done() is ready
BackoffAbort(e) == CtxError(e)

\* outcomes the executor is specified to retry: transport failure, and 5xx
\* or 429 with a decodable error body
RetryableKind(o) ==
    \/ o.t = "neterr"
    \/ /\ o.t = "resp"
       /\ o.body = "valid"
       /\ o.status = StatusTooManyRequests \/ (o.status >= 500 /\ o.status < 600)

\* history of the call after an attempt finished with outcome o
Record(o) ==
    /\ lastOut' = o
    /\ uniform' = IF uniform = NoClass THEN Class(o)
                  ELSE IF uniform = Class(o) THEN uniform ELSE Mixed
    /\ prev500' = IF lastOut = NoOutcome THEN TRUE
                  ELSE prev500 /\ Class(lastOut) = Class(Responded(500, "valid", 0))
    /\ retryableOnly' = (retryableOnly /\ RetryableKind(o))

\* variant of the loop whose increment skips an attempt index
AttemptDoneSkipsIndex(err) ==
    IF err = Nil
    THEN /\ pc' = "done"
         /\ result' = Nil
         /\ UNCHANGED <<attempt, lastErr>>
    ELSE IF IsTerminal(err)
    THEN /\ pc' = "done"
         /\ result' = err
         /\ UNCHANGED <<attempt, lastErr>>
    ELSE /\ lastErr' = err
         /\ attempt' = attempt + 2
         /\ IF LoopContinues(attempt + 2)
            THEN pc' = "backoff" /\ UNCHANGED result
            ELSE pc' = "done" /\ result' = MaxRetriesExceeded(err)

\* the closure returned err: return, or record lastErr and go round the loop
AttemptDone(err) ==
    IF err = Nil
    THEN /\ pc' = "done"
         /\ result' = Nil
         /\ UNCHANGED <<attempt, lastErr>>
    ELSE IF IsTerminal(err)
    THEN /\ pc' = "done"
         /\ result' = err
         /\ UNCHANGED <<attempt, lastErr>>
    ELSE /\ lastErr' = err
         /\ attempt' = attempt + 1
         /\ IF LoopContinues(attempt + 1)
            THEN pc' = "backoff" /\ UNCHANGED result
            ELSE pc' = "done" /\ result' = MaxRetriesExceeded(err)

(***************************************************************************)
(* Actions                                                                 *)
(***************************************************************************)
\* entry of doRequest: inject ctx into the authenticator, marshal the body,
\* enter the loop
DoRequestStart(body, wantResult) ==
    /\ pc = "idle"
    /\ authCtx' = IF authKind \in {"context", "dynamic"} THEN "call" ELSE authCtx
    /\ hasSink' = wantResult
    /\ callerBody' = body
    /\ IF body = "unmarshalable"
       THEN /\ pc' = "done"
            /\ result' = MarshalError
            /\ UNCHANGED jsonData
       ELSE /\ jsonData' = Marshal(body)
            /\ IF LoopContinues(0)
               THEN pc' = "attempt" /\ UNCHANGED result
               ELSE pc' = "done" /\ result' = MaxRetriesExceeded(Nil)
    /\ UNCHANGED <<authKind, authToken, options, optsArg, attempt, lastErr, sink, req>>
    /\ UNCHANGED <<ctxVars, histVars>>

\* doRequest(ctx, m, path, body, result): url := baseURL + path, then the entry
DoRequest(m, path, body, wantResult) ==
    /\ method' = m
    /\ url' = baseURL \o path
    /\ DoRequestStart(body, wantResult)

\* doRequest called by itself, not through a facade operation
DirectDoRequest(body, wantResult) ==
    /\ DoRequest(DirectMethod, DirectPath, body, wantResult)
    /\ UNCHANGED <<op, args>>

\* variant of the backoff wait in which the timer fires whatever the context
BackoffTimerIgnoresCtx ==
    /\ pc = "backoff"
    /\ pc' = "attempt"
    /\ waits' = Append(waits, BackoffDelay(attempt))
    /\ UNCHANGED <<attempt, lastErr, callerBody, jsonData, hasSink, sink, req, result>>
    /\ UNCHANGED <<clientVars, ctxVars, facadeVars>>
    /\ UNCHANGED <<stamps, provided, sends, started, lastOut, uniform, prev500, retryableOnly,
                   cancelledAt, answers, installed, pool>>

\* backoff wait: the timer fires first
BackoffTimer ==
    /\ pc = "backoff"
    /\ ctxErr = "none"
    /\ pc' = "attempt"
    /\ waits' = Append(waits, BackoffDelay(attempt))
    /\ UNCHANGED <<attempt, lastErr, callerBody, jsonData, hasSink, sink, req, result>>
    /\ UNCHANGED <<clientVars, ctxVars, facadeVars>>
    /\ UNCHANGED <<stamps, provided, sends, started, lastOut, uniform, prev500, retryableOnly,
                   cancelledAt, answers, installed, pool>>

\* backoff wait: ctx.Done() is ready
BackoffCtxDone ==
    /\ pc = "backoff"
    /\ ctxErr # "none"
    /\ pc' = "done"
    /\ result' = BackoffAbort(ctxErr)
    /\ UNCHANGED <<attempt, lastErr, callerBody, jsonData, hasSink, sink, req>>
    /\ UNCHANGED <<clientVars, ctxVars, facadeVars, histVars>>

\* start of an attempt without authenticator: build the request and send it
SendUnauthenticated ==
    /\ pc = "attempt"
    /\ authKind = "nil"
    /\ req' = NewRequest(RequestBody(jsonData, callerBody))
    /\ pc' = "inflight"
    /\ started' = started + 1
    /\ sends' = sends + 1
    /\ UNCHANGED <<attempt, lastErr, callerBody, jsonData, hasSink, sink, result>>
    /\ UNCHANGED <<clientVars, ctxVars, facadeVars, stamps, provided, lastOut, uniform, prev500,
                   retryableOnly, cancelledAt, answers, installed, waits>>
    /\ pool' = Acquire(pool)

\* start of an attempt: build the request, stamp it, send it
StampAndSend(p) ==
    /\ pc = "attempt"
    /\ authKind # "nil"
    /\ LET carried == CtxValue(authCtx, ctxToken)
           st == AuthenticateFastHTTP(authKind, authToken, authCtx, carried, p)
       IN  /\ st.ok
           /\ req' = Stamped(NewRequest(RequestBody(jsonData, callerBody)), st)
    /\ pc' = "inflight"
    /\ started' = started + 1
    /\ stamps' = stamps + 1
    /\ provided' = Asked(authKind, p, provided)
    /\ sends' = sends + 1
    /\ UNCHANGED <<attempt, lastErr, callerBody, jsonData, hasSink, sink, result>>
    /\ UNCHANGED <<clientVars, ctxVars, facadeVars, lastOut, uniform, prev500, retryableOnly, cancelledAt,
                   answers, installed, waits>>
    /\ pool' = Acquire(pool)

\* start of an attempt: the stamp fails, the closure returns the error
StampFails(p) ==
    /\ pc = "attempt"
    /\ authKind # "nil"
    /\ LET carried == CtxValue(authCtx, ctxToken)
           st == AuthenticateFastHTTP(authKind, authToken, authCtx, carried, p)
       IN  /\ ~st.ok
           /\ AttemptDone(AuthError(st.err))
           /\ Record(AuthFailed(st.err))
    /\ req' = NoRequest
    /\ started' = started + 1
    /\ stamps' = stamps + 1
    /\ provided' = Asked(authKind, p, provided)
    /\ UNCHANGED <<callerBody, jsonData, hasSink, sink>>
    /\ UNCHANGED <<clientVars, ctxVars, facadeVars, sends, cancelledAt, answers, installed, waits>>
    /\ pool' = Release(Acquire(pool))

\* DoTimeout returns an error
TransportFails(f) ==
    /\ pc = "inflight"
    /\ AttemptDone(TransportError(f))
    /\ Record(TransportFailed(f))
    /\ req' = NoRequest
    /\ UNCHANGED <<callerBody, jsonData, hasSink, sink>>
    /\ UNCHANGED <<clientVars, ctxVars, facadeVars, stamps, provided, sends, started, cancelledAt, answers, installed, waits>>
    /\ pool' = Release(pool)

\* DoTimeout returns a response
Respond(o) ==
    /\ pc = "inflight"
    /\ AttemptDone(HandleResponse(o, hasSink))
    /\ sink' = SinkAfter(o, hasSink, sink)
    /\ Record(o)
    /\ req' = NoRequest
    /\ UNCHANGED <<callerBody, jsonData, hasSink>>
    /\ UNCHANGED <<clientVars, ctxVars, facadeVars, stamps, provided, sends, started, cancelledAt, answers, installed, waits>>
    /\ pool' = Release(pool)

\* the caller cancels the context, or its deadline passes
CtxCancel(e) ==
    /\ pc \notin {"idle", "done"}
    /\ ctxErr = "none"
    /\ ctxErr' = e
    /\ cancelledAt' = pc
    /\ UNCHANGED <<clientVars, callVars, ctxToken, facadeVars>>
    /\ UNCHANGED <<stamps, provided, sends, started, lastOut, uniform, prev500, retryableOnly,
                   answers, installed, waits, pool>>

(***************************************************************************)
(* Specification                                                           *)
(***************************************************************************)
\* the client after NewClient(auth, opts), no call made yet
Init ==
    /\ op = "none"
    /\ args = NoArgs
    /\ method = ""
    /\ url = ""
    /\ authKind \in AuthKinds
    /\ authToken \in (IF authKind \in {"bearer", "oauth"} THEN Tokens ELSE {""})
    /\ authCtx = "nil"
    /\ optsArg \in {OnlyMaxRetries(m) : m \in 1..MaxRetriesBound}
    /\ options = NewClientOptions(optsArg)
    /\ pc = "idle"
    /\ attempt = 0
    /\ lastErr = Nil
    /\ callerBody = "nil"
    /\ jsonData = "none"
    /\ hasSink = FALSE
    /\ sink = "untouched"
    /\ req = NoRequest
    /\ result = Nil
    /\ ctxToken \in (IF authKind = "context" THEN CtxTokens ELSE {"absent"})
    /\ ctxErr = "none"
    /\ stamps = 0
    /\ provided = NotAsked
    /\ sends = 0
    /\ started = 0
    /\ lastOut = NoOutcome
    /\ uniform = NoClass
    /\ prev500 = TRUE
    /\ retryableOnly = TRUE
    /\ cancelledAt = "never"
    /\ answers = {}
    /\ installed = Installed(authKind, authToken, "NewClient")
    /\ waits = <<>>
    /\ pool = NoPool

Next ==
    \/ \E body \in Bodies, wantResult \in BOOLEAN :
          DirectDoRequest(body, wantResult)
    \/ BackoffTimer
    \/ BackoffCtxDone
    \/ SendUnauthenticated
    \/ \E p \in ProviderResults : StampAndSend(p)
    \/ \E p \in ProviderResults : StampFails(p)
    \/ \E f \in TransportFailures : TransportFails(f)
    \/ \E o \in Responses : Respond(o)
    \/ \E e \in {"canceled", "deadline exceeded"} : CtxCancel(e)

Spec == Init /\ [][Next]_vars

(***************************************************************************)
(* The client shared with other goroutines                                 *)
(***************************************************************************)
\* entry of a concurrent doRequest on the same client, called with another
\* context: it injects that context into the shared authenticator
ConcurrentDoRequest ==
    /\ authKind \in {"context", "dynamic"}
    /\ authCtx' = "other"
    /\ UNCHANGED <<authKind, authToken, options, optsArg>>
    /\ UNCHANGED <<callVars, ctxVars, facadeVars, histVars>>

\* when SetAuth is called, relative to the call followed
SetAuthTime == IF pc = "idle" THEN "before the call" ELSE "during the call"

\* variant that leaves c.auth as it is
SetAuthKeepsPrevious(kind, token) ==
    /\ installed' = Installed(kind, token, SetAuthTime)
    /\ UNCHANGED <<clientVars, callVars, ctxVars, facadeVars>>
    /\ UNCHANGED <<stamps, provided, sends, started, lastOut, uniform, prev500, retryableOnly,
                   cancelledAt, answers, waits, pool>>

\* c.SetAuth(auth) with a newly built authenticator
SetAuth(kind, token) ==
    /\ authKind' = kind
    /\ authToken' = token
    /\ authCtx' = "nil"
    /\ installed' = Installed(kind, token, SetAuthTime)
    /\ UNCHANGED <<options, optsArg>>
    /\ UNCHANGED <<callVars, ctxVars, facadeVars>>
    /\ UNCHANGED <<stamps, provided, sends, started, lastOut, uniform, prev500, retryableOnly,
                   cancelledAt, answers, waits, pool>>

\* the authenticators a caller can build: [kind, token]
Authenticators ==
    {<<k, t>> : k \in {"bearer", "oauth"}, t \in Tokens}
    \cup {<<k, "">> : k \in {"nil", "dynamic", "context"}}

\* the caller changes its body object while the call is running
MutateBody ==
    /\ pc \notin {"idle", "done"}
    /\ callerBody = "value"
    /\ callerBody' = "changed"
    /\ UNCHANGED <<pc, attempt, lastErr, jsonData, hasSink, sink, req, result>>
    /\ UNCHANGED <<clientVars, ctxVars, facadeVars, histVars>>

\* one call, with other calls running on the same client
NextConcurrent ==
    \/ Next
    \/ ConcurrentDoRequest

SpecConcurrent == Init /\ [][NextConcurrent]_vars

\* one call, with SetAuth called on the client before, while and after it runs
\* the call sends a body and wants no result; the transport answers with
\* success or with a server error
NextSetAuth ==
    \/ \E body \in {"value"}, wantResult \in {FALSE} :
          DirectDoRequest(body, wantResult)
    \/ BackoffTimer
    \/ BackoffCtxDone
    \/ SendUnauthenticated
    \/ \E p \in ProviderResults : StampAndSend(p)
    \/ \E p \in ProviderResults : StampFails(p)
    \/ \E f \in TransportFailures : TransportFails(f)
    \/ \E o \in {Responded(200, "empty", 0), Responded(500, "valid", 500)} : Respond(o)
    \/ \E e \in {"canceled", "deadline exceeded"} : CtxCancel(e)
    \/ \E a \in Authenticators : SetAuth(a[1], a[2])

SpecSetAuth == Init /\ [][NextSetAuth]_vars

\* one call, with the caller changing the body object while it runs
NextMutateBody ==
    \/ Next
    \/ MutateBody

SpecMutateBody == Init /\ [][NextMutateBody]_vars

(***************************************************************************)
(* Vocabulary of the properties                                            *)
(***************************************************************************)
\* the latest finished attempt received a response with this status range
GotResponse == lastOut.t = "resp"
GotErrorResponse == GotResponse /\ ~IsSuccess(lastOut.status)
\* the latest finished attempt received a non-2xx response with a decodable body
GotServiceError == GotErrorResponse /\ lastOut.body = "valid"
\* every finished attempt was answered with status s and a decodable error body
AlwaysAnswered(s) == uniform = Class(Responded(s, "valid", 0))
\* every finished attempt ended in a transport failure
AlwaysTransportFailure == uniform = Class(TransportFailed(""))
Returned == pc = "done"
ClientErrorStatuses == {s \in Statuses : s >= 400 /\ s < 500 /\ s # 429}

(***************************************************************************)
(* C1: when the authenticator's stamp fails on an attempt, doRequest       *)
(* returns the authentication error at once: the attempt sends nothing, no *)
(* further attempt is made and the error is not retry exhaustion.          *)
(***************************************************************************)
C1_AuthFailureIsFatal ==
    lastOut.t = "authfail" =>
        /\ Returned
        /\ result = AuthError(lastOut.cause)
        /\ stamps = started
        /\ sends = started - 1

(***************************************************************************)
(* C2: a transport that answers every attempt with 404 (or any other 4xx   *)
(* except 429) and a decodable error body gets exactly one attempt, and    *)
(* doRequest returns the decoded APIError, not retry exhaustion.           *)
(***************************************************************************)
C2_ClientErrorOneAttempt ==
    (\E s \in ClientErrorStatuses : AlwaysAnswered(s)) =>
        /\ Returned
        /\ sends = 1
        /\ result = APIError(lastOut.bstatus)

(***************************************************************************)
(* C3: a transport that answers every attempt with 429 and a decodable     *)
(* error body gets exactly maxRetries+1 attempts, and doRequest returns    *)
(* retry exhaustion wrapping the APIError of the last attempt.             *)
(***************************************************************************)
C3_TooManyRequestsExhausts ==
    (Returned /\ AlwaysAnswered(429) /\ ctxErr = "none") =>
        /\ sends = maxRetries + 1
        /\ result = MaxRetriesExceeded(APIError(lastOut.bstatus))

(***************************************************************************)
(* C4: for 1 <= N <= maxRetries+1, a transport that answers 500 with a     *)
(* decodable error body on the first N-1 attempts and 200 on attempt N     *)
(* makes doRequest succeed after exactly N attempts: the call goes on      *)
(* while it has only seen 500s and attempts remain, and stops with success *)
(* at the 2xx.                                                             *)
(***************************************************************************)
C4_SuccessAfterServerErrors ==
    /\ (AlwaysAnswered(500) /\ sends <= maxRetries /\ ctxErr = "none") => ~Returned
    /\ (prev500 /\ GotResponse /\ IsSuccess(lastOut.status)
          /\ HandleResponse(lastOut, hasSink) = Nil) =>
            /\ Returned
            /\ result = Nil
            /\ sends = started

(***************************************************************************)
(* C5: when the caller context is cancelled or expires during the backoff  *)
(* wait before attempt k >= 1, doRequest returns ctx.Err(), not retry      *)
(* exhaustion, and attempt k and all later attempts are never made.        *)
(***************************************************************************)
C5_CancelDuringBackoff ==
    cancelledAt = "backoff" =>
        /\ pc \in {"backoff", "done"}
        /\ Returned => result = CtxError(ctxErr)
        /\ attempt >= 1
        /\ started = attempt
        /\ sends <= attempt

C5_Witness ==
    /\ cancelledAt = "backoff"
    /\ Returned
    /\ result = CtxError("deadline exceeded")
    /\ attempt = 2
    /\ sends = 2

(***************************************************************************)
(* C6: a 2xx response whose non-empty body cannot be deserialized into the *)
(* requested result makes doRequest return the deserialization error at    *)
(* once: it is not retried and is not reported as retry exhaustion.        *)
(***************************************************************************)
C6_UnmarshalFailureIsFatal ==
    (GotResponse /\ IsSuccess(lastOut.status) /\ hasSink /\ lastOut.body = "invalid") =>
        /\ Returned
        /\ result = UnmarshalError

(***************************************************************************)
(* C7: a non-2xx response whose body is not valid error JSON makes         *)
(* doRequest return at once a generic error with the raw status and body,  *)
(* for every non-2xx status: no further attempt, not retry exhaustion.     *)
(***************************************************************************)
C7_MalformedErrorBodyIsFatal ==
    (GotErrorResponse /\ lastOut.body # "valid") =>
        /\ Returned
        /\ result = HTTPError(lastOut.status, lastOut.body)

(***************************************************************************)
(* C8: after a non-2xx response with a decodable error body doRequest      *)
(* retries if and only if the status is 429 or in [500,600); for every     *)
(* other non-2xx status the APIError is returned without another attempt.  *)
(***************************************************************************)
C8_RetryIffServerErrorOr429 ==
    GotServiceError =>
        IF lastOut.status = 429 \/ (lastOut.status >= 500 /\ lastOut.status < 600)
        THEN /\ lastErr = APIError(lastOut.bstatus)
             /\ Returned => result \in {MaxRetriesExceeded(lastErr), CtxError(ctxErr)}
        ELSE /\ Returned
             /\ result = APIError(lastOut.bstatus)

(***************************************************************************)
(* C9: when the caller context is cancelled or expires while a transport   *)
(* attempt is in flight, doRequest returns ctx.Err(), not a transport      *)
(* error and not retry exhaustion.                                         *)
(***************************************************************************)
C9_CancelInFlight ==
    (cancelledAt = "inflight" /\ Returned) => result = CtxError(ctxErr)

(***************************************************************************)
(* C10: a transport failure on an attempt is recorded as the last error    *)
(* and the next attempt is made; a transport that fails on every attempt   *)
(* gets exactly maxRetries+1 attempts and doRequest returns retry          *)
(* exhaustion wrapping the last transport error.                           *)
(***************************************************************************)
C10_TransportFailureRetried ==
    /\ lastOut.t = "neterr" =>
        /\ lastErr = TransportError(lastOut.cause)
        /\ Returned =>
            \/ attempt = maxRetries + 1 /\ result = MaxRetriesExceeded(lastErr)
            \/ cancelledAt # "never" /\ result = CtxError(ctxErr)
    /\ (Returned /\ AlwaysTransportFailure /\ ctxErr = "none") =>
        /\ sends = maxRetries + 1
        /\ result = MaxRetriesExceeded(TransportError(lastOut.cause))

C10_Witness ==
    /\ Returned
    /\ AlwaysTransportFailure
    /\ ctxErr = "none"
    /\ maxRetries = 2
    /\ sends = 3
    /\ result = MaxRetriesExceeded(TransportError("timeout"))

(***************************************************************************)
(* C11: when one client built with a ContextTokenAuth is used by           *)
(* concurrent calls whose contexts carry different tokens, every request   *)
(* of a call, first attempt or retry, carries "Bearer " + the token of     *)
(* that call's own context, never the token of another call.               *)
(***************************************************************************)
C11_OwnTokenOnEveryRequest ==
    (authKind = "context" /\ ctxToken \notin {"absent", ""} /\ req.acquired) =>
        req.authorization = <<"Bearer " \o ctxToken>>

(***************************************************************************)
(* C12: at every attempt the client's active authenticator is the one      *)
(* consulted, and when it is a ContextTokenAuth or a DynamicTokenAuth the  *)
(* context it uses for that stamp is the context of the call, on first     *)
(* attempts and retries, also when the authenticator was installed by      *)
(* SetAuth after the call began.                                           *)
(***************************************************************************)
C12_StampUsesCallContext ==
    [][(stamps' = stamps + 1 /\ authKind \in {"context", "dynamic"})
          => authCtx = "call"]_vars

(***************************************************************************)
(* C13: the request body is serialized exactly once per call, before the   *)
(* first attempt: every attempt sends the bytes marshalled at entry, also  *)
(* when the caller changes the body object while the call runs, and a      *)
(* serialization failure returns before any attempt is made.               *)
(***************************************************************************)
C13_BodySerializedOnce ==
    [][/\ (pc = "idle" /\ pc' # "idle" /\ result' # MarshalError)
            => jsonData' = Marshal(callerBody')
       /\ pc # "idle" => jsonData' = jsonData
       /\ req'.acquired => req'.body = jsonData'
       /\ (pc = "idle" /\ callerBody' = "unmarshalable")
            => (pc' = "done" /\ result' = MarshalError)
       /\ result' = MarshalError => (started' = 0 /\ sends' = 0 /\ stamps' = 0)]_vars

C13_Witness ==
    /\ req.acquired
    /\ attempt >= 1
    /\ callerBody = "changed"
    /\ req.body = "bytes"

(***************************************************************************)
(* C14: whenever a call fails because the server answered with a           *)
(* structured error body (any non-2xx status, also 5xx and 429 once the    *)
(* retries are spent) the returned error is itself an APIError pointer, so *)
(* that a direct type assertion on it succeeds; only other failures fail   *)
(* that assertion.                                                         *)
(***************************************************************************)
C14_ServiceErrorIsAPIError ==
    /\ (Returned /\ GotServiceError /\ result.kind # "context")
          => result = APIError(lastOut.bstatus)
    /\ (Returned /\ result.kind = "APIError") => GotServiceError

(***************************************************************************)
(* C15: when all maxRetries+1 attempts fail with retryable failures of any *)
(* kinds in any order (transport failure, 5xx, 429), the returned error is *)
(* retry exhaustion wrapping the error of the final attempt.               *)
(***************************************************************************)
\* the error the attempt closure returns for outcome o
FailureOf(o) ==
    CASE o.t = "authfail" -> AuthError(o.cause)
      [] o.t = "neterr"   -> TransportError(o.cause)
      [] o.t = "resp"     -> HandleResponse(o, hasSink)
      [] OTHER            -> Nil

C15_ExhaustionWrapsFinalError ==
    (Returned /\ retryableOnly /\ started = maxRetries + 1) =>
        result = MaxRetriesExceeded(FailureOf(lastOut))

(***************************************************************************)
(* C16: no failure is swallowed: doRequest returns nil only if its final   *)
(* attempt received a 2xx response and, when a result was requested and    *)
(* the body was not empty, the body was deserialized into it; every other  *)
(* execution returns a non-nil error that is, or wraps, the failure that   *)
(* ended the call.                                                         *)
(***************************************************************************)
\* errors.Unwrap of a retry-exhaustion error, the error itself otherwise
Root(e) == IF e.kind = "max retries exceeded" THEN e.cause ELSE e

ErrorKinds ==
    {"failed to marshal request body", "authentication failed", "request failed",
     "failed to unmarshal response", "HTTP", "APIError", "max retries exceeded",
     "context"}

InitStamp ==
    /\ op = "none"
    /\ args = NoArgs
    /\ method = ""
    /\ url = ""
    /\ authKind \in AuthKinds \ {"nil"}
    /\ authToken \in (IF authKind \in {"bearer", "oauth"} THEN Tokens ELSE {""})
    /\ authCtx \in (IF authKind \in {"dynamic", "context"} THEN {"nil", "call"} ELSE {"nil"})
    /\ ctxToken \in (IF authKind = "context" THEN CtxTokens ELSE {"absent"})
    /\ optsArg = NilOptions
    /\ options = NewClientOptions(optsArg)
    /\ pc = "idle"
    /\ attempt = 0
    /\ lastErr = Nil
    /\ callerBody = "nil"
    /\ jsonData = "none"
    /\ hasSink = FALSE
    /\ sink = "untouched"
    /\ req = NewRequest("none")
    /\ result = Nil
    /\ ctxErr = "none"
    /\ stamps = 0
    /\ provided = NotAsked
    /\ sends = 0
    /\ started = 0
    /\ lastOut = NoOutcome
    /\ uniform = NoClass
    /\ prev500 = TRUE
    /\ retryableOnly = TRUE
    /\ cancelledAt = "never"
    /\ answers = {}
    /\ installed = Installed(authKind, authToken, "NewClient")
    /\ waits = <<>>
    /\ pool = NoPool

\* auth.AuthenticateFastHTTP(req); lastErr holds the error it returned
Stamp(p) ==
    /\ stamps < MaxStamps
    /\ LET carried == CtxValue(authCtx, ctxToken)
           st == AuthenticateFastHTTP(authKind, authToken, authCtx, carried, p)
       IN  /\ req' = Stamped(req, st)
           /\ lastErr' = IF st.ok THEN Nil ELSE AuthError(st.err)
    /\ stamps' = stamps + 1
    /\ provided' = Asked(authKind, p, provided)
    /\ UNCHANGED <<pc, attempt, callerBody, jsonData, hasSink, sink, result>>
    /\ UNCHANGED <<clientVars, ctxVars, facadeVars>>
    /\ UNCHANGED <<sends, started, lastOut, uniform, prev500, retryableOnly, cancelledAt,
                   answers, installed, waits, pool>>

NextStamp == \E p \in ProviderResults : Stamp(p)

SpecStamp == InitStamp /\ [][NextStamp]_vars

\* the token the strategy has to supply: "" or "absent" when it has none
SuppliedToken ==
    CASE authKind \in {"bearer", "oauth"} -> authToken
      [] authKind = "dynamic"             -> provided.token
      [] authKind = "context"             -> CtxValue(authCtx, ctxToken)
      [] OTHER                            -> "absent"

(***************************************************************************)
(* C17: for each of the four strategies, a stamp applied when the strategy *)
(* has no token to supply (empty fixed token, empty or missing token in    *)
(* the context, empty token from the supplier) returns an error and leaves *)
(* the request as it was, without an Authorization header if it had none.  *)
(***************************************************************************)
C17_EmptyTokenStampFails ==
    [][(stamps' = stamps + 1 /\ SuppliedToken' \in {"", "absent"}) =>
          /\ lastErr' # Nil
          /\ lastErr'.kind = "authentication failed"
          /\ req' = req
          /\ req.authorization = <<>> => req'.authorization = <<>>]_vars

C17_Witness ==
    /\ stamps >= 1
    /\ authKind = "dynamic"
    /\ provided = [token |-> "", err |-> FALSE]
    /\ lastErr = AuthError("token is empty")
    /\ req.authorization = <<>>

(***************************************************************************)
(* C18: for each strategy and each non-empty token, the stamp succeeds and *)
(* leaves the request with exactly one Authorization header, whose value   *)
(* is "Bearer " followed by that token; stamping again does not add a      *)
(* second header.                                                          *)
(***************************************************************************)
C18_StampSetsOneBearerHeader ==
    [][(stamps' = stamps + 1 /\ SuppliedToken' \notin {"", "absent"}) =>
          /\ lastErr' = Nil
          /\ Len(req'.authorization) = 1
          /\ req'.authorization[1] = "Bearer " \o SuppliedToken']_vars

C18_Witness ==
    /\ stamps >= 2
    /\ authKind = "dynamic"
    /\ provided = [token |-> "t2", err |-> FALSE]
    /\ lastErr = Nil
    /\ req.authorization = <<"Bearer t2">>

(***************************************************************************)
(* The classification predicates of *APIError on their own: the call       *)
(* returned an *APIError of any status and the caller asks its predicates  *)
(***************************************************************************)
IsPermissionDenied(e) == e.status = StatusForbidden

IsUnauthorized(e) == e.status = StatusUnauthorized

\* variant that compares with the status of a bad request
IsNotFoundAsBadRequest(e) == e.status = StatusBadRequest

IsNotFound(e) == e.status = StatusNotFound

IsBadRequest(e) == e.status = StatusBadRequest

Asks(name) == \E a \in answers : a[1] = name

InitClassify ==
    /\ op = "none"
    /\ args = NoArgs
    /\ method = ""
    /\ url = ""
    /\ authKind = "nil"
    /\ authToken = ""
    /\ authCtx = "nil"
    /\ optsArg = NilOptions
    /\ options = NewClientOptions(optsArg)
    /\ pc = "done"
    /\ attempt = 0
    /\ lastErr = Nil
    /\ callerBody = "nil"
    /\ jsonData = "none"
    /\ hasSink = FALSE
    /\ sink = "untouched"
    /\ req = NoRequest
    /\ result \in {APIError(st) : st \in MinStatus..MaxStatus}
    /\ ctxToken = "absent"
    /\ ctxErr = "none"
    /\ stamps = 0
    /\ provided = NotAsked
    /\ sends = 1
    /\ started = 1
    /\ lastOut = NoOutcome
    /\ uniform = NoClass
    /\ prev500 = TRUE
    /\ retryableOnly = TRUE
    /\ cancelledAt = "never"
    /\ answers = {}
    /\ installed = Installed(authKind, authToken, "NewClient")
    /\ waits = <<>>
    /\ pool = NoPool

\* the caller asks one predicate of the error it got
Ask(name, answer) ==
    /\ pc = "done"
    /\ result.kind = "APIError"
    /\ ~Asks(name)
    /\ answers' = answers \cup {<<name, answer>>}
    /\ UNCHANGED <<clientVars, callVars, ctxVars, facadeVars>>
    /\ UNCHANGED <<stamps, provided, sends, started, lastOut, uniform, prev500, retryableOnly,
                   cancelledAt, installed, waits, pool>>

AskIsPermissionDenied == Ask("IsPermissionDenied", IsPermissionDenied(result))

AskIsUnauthorized == Ask("IsUnauthorized", IsUnauthorized(result))

AskIsNotFound == Ask("IsNotFound", IsNotFound(result))

AskIsBadRequest == Ask("IsBadRequest", IsBadRequest(result))

NextClassify ==
    \/ AskIsPermissionDenied
    \/ AskIsUnauthorized
    \/ AskIsNotFound
    \/ AskIsBadRequest

SpecClassify == InitClassify /\ [][NextClassify]_vars

(***************************************************************************)
(* C19: for every status code, IsPermissionDenied answers true iff the     *)
(* status is 403, IsUnauthorized iff 401, IsNotFound iff 404, IsBadRequest *)
(* iff 400; so at most one predicate answers true for a status and all     *)
(* four answer false for every other code.                                 *)
(***************************************************************************)
C19_PredicatesMatchExactly ==
    /\ \A a \in answers :
          /\ a[1] = "IsPermissionDenied" => (a[2] <=> result.status = 403)
          /\ a[1] = "IsUnauthorized"     => (a[2] <=> result.status = 401)
          /\ a[1] = "IsNotFound"         => (a[2] <=> result.status = 404)
          /\ a[1] = "IsBadRequest"       => (a[2] <=> result.status = 400)
    /\ Cardinality({a \in answers : a[2]}) <= 1
    /\ (answers # {} /\ result.status \notin {400, 401, 403, 404})
          => \A a \in answers : ~a[2]

C19_Witness ==
    /\ result = APIError(404)
    /\ answers = {<<"IsPermissionDenied", FALSE>>, <<"IsUnauthorized", FALSE>>,
                  <<"IsNotFound", TRUE>>, <<"IsBadRequest", FALSE>>}

(***************************************************************************)
(* NewClient on its own: the caller passes nil or an options object in     *)
(* which any subset of the fields is supplied                              *)
(***************************************************************************)
\* values of a numeric field: zero, the default, another value
FieldValues(def) == {0, def, def + 1}

SuppliedOptions ==
    [Timeout : FieldValues(defaultTimeout),
     MaxRetries : FieldValues(defaultMaxRetries) \cup {0 - 1},
     RetryDelay : FieldValues(defaultRetryDelay),
     Logger : {"nil", "logger"},
     MaxConnsPerHost : FieldValues(defaultMaxConnsPerHost),
     MaxIdleConnDuration : FieldValues(defaultMaxIdleConnDuration)]

\* no client has been constructed: options is NilOptions
InitNewClient ==
    /\ op = "none"
    /\ args = NoArgs
    /\ method = ""
    /\ url = ""
    /\ authKind = "nil"
    /\ authToken = ""
    /\ authCtx = "nil"
    /\ optsArg \in {NilOptions} \cup SuppliedOptions
    /\ options = NilOptions
    /\ pc = "idle"
    /\ attempt = 0
    /\ lastErr = Nil
    /\ callerBody = "nil"
    /\ jsonData = "none"
    /\ hasSink = FALSE
    /\ sink = "untouched"
    /\ req = NoRequest
    /\ result = Nil
    /\ ctxToken = "absent"
    /\ ctxErr = "none"
    /\ stamps = 0
    /\ provided = NotAsked
    /\ sends = 0
    /\ started = 0
    /\ lastOut = NoOutcome
    /\ uniform = NoClass
    /\ prev500 = TRUE
    /\ retryableOnly = TRUE
    /\ cancelledAt = "never"
    /\ answers = {}
    /\ installed = Installed(authKind, authToken, "NewClient")
    /\ waits = <<>>
    /\ pool = NoPool

\* NewClient(auth, opts)
NewClient(kind) ==
    /\ options = NilOptions
    /\ authKind' = kind
    /\ options' = NewClientOptions(optsArg)
    /\ installed' = Installed(kind, authToken, "NewClient")
    /\ UNCHANGED <<authToken, authCtx, optsArg>>
    /\ UNCHANGED <<callVars, ctxVars, facadeVars>>
    /\ UNCHANGED <<stamps, provided, sends, started, lastOut, uniform, prev500, retryableOnly,
                   cancelledAt, answers, waits, pool>>

NextNewClient == \E kind \in {"nil", "dynamic", "context"} : NewClient(kind)

SpecNewClient == InitNewClient /\ [][NextNewClient]_vars

NumericFields ==
    {"Timeout", "MaxRetries", "RetryDelay", "MaxConnsPerHost", "MaxIdleConnDuration"}

(***************************************************************************)
(* C20: NewClient without options resolves timeout 30 s, maxRetries 3,     *)
(* retryDelay 1 s, MaxConnsPerHost 512 and MaxIdleConnDuration 10 s; with  *)
(* an options object each supplied value is kept and each zero field takes *)
(* its default, independently of the other fields.                         *)
(***************************************************************************)
C20_OptionsMergedFieldByField ==
    LET def == [Timeout |-> 30, MaxRetries |-> 3, RetryDelay |-> 1,
                MaxConnsPerHost |-> 512, MaxIdleConnDuration |-> 10]
    IN  options # NilOptions =>
           IF optsArg = NilOptions
           THEN \A f \in NumericFields : options[f] = def[f]
           ELSE /\ \A f \in NumericFields :
                      options[f] = IF optsArg[f] = 0 THEN def[f] ELSE optsArg[f]
                /\ options.Logger = optsArg.Logger

C20_Witness ==
    /\ optsArg # NilOptions
    /\ optsArg.Timeout = 0
    /\ optsArg.MaxRetries = 4
    /\ optsArg.RetryDelay = 0
    /\ options # NilOptions
    /\ options.Timeout = 30
    /\ options.MaxRetries = 4
    /\ options.RetryDelay = 1

(***************************************************************************)
(* The caller keeps the options object it passed to NewClient              *)
(***************************************************************************)
\* the caller's ClientOptions object: NewClient writes the defaults into it
\* and stores the pointer, so after construction it is the object c.options
\* points to
CallerOptions ==
    IF optsArg = NilOptions THEN NilOptions
    ELSE IF options = NilOptions THEN optsArg
    ELSE options

\* values the caller writes into a field of its object
WrittenValues == {0, 7}

\* the caller assigns a field of the options object it passed earlier
CallerSetsOption(f, v) ==
    /\ optsArg # NilOptions
    /\ options # NilOptions
    /\ options' = [options EXCEPT ![f] = v]
    /\ UNCHANGED <<authKind, authToken, authCtx, optsArg>>
    /\ UNCHANGED <<callVars, ctxVars, histVars, facadeVars>>

NextCallerOptions ==
    \/ NextNewClient
    \/ \E f \in {"Timeout", "MaxRetries", "RetryDelay"}, v \in WrittenValues :
          CallerSetsOption(f, v)

SpecCallerOptions == InitNewClient /\ [][NextCallerOptions]_vars

(***************************************************************************)
(* C21: the options are copied into the client at construction: NewClient  *)
(* does not modify the caller's ClientOptions object, and a later change   *)
(* of that object by the caller does not change the timeout, maxRetries or *)
(* retryDelay the constructed client uses.                                 *)
(***************************************************************************)
C21_OptionsCopiedAtConstruction ==
    [][/\ (options = NilOptions /\ options' # NilOptions /\ optsArg # NilOptions)
            => CallerOptions' = CallerOptions
       /\ options # NilOptions
            => /\ options'.Timeout = options.Timeout
               /\ options'.MaxRetries = options.MaxRetries
               /\ options'.RetryDelay = options.RetryDelay]_vars

(***************************************************************************)
(* Requests of the facade and their validation                             *)
(***************************************************************************)
\* values of a string field of a request sent in the body
BodyNames == {"", "a"}

\* values of a string argument that is put into the path
PathNames == {"", "a", "b"}

\* req == nil
NilRequest == [type |-> "nil"]

\* request types of package anamericano (permissions.go)
PermissionCheckRequests ==
    [type : {"PermissionCheckRequest"}, SubjectType : BodyNames, SubjectID : BodyNames,
     Relation : BodyNames, ObjectNamespace : BodyNames, ObjectID : BodyNames]

PermissionWriteRequests ==
    [type : {"PermissionWriteRequest"}, ObjectNamespace : BodyNames, ObjectID : BodyNames,
     Relation : BodyNames, SubjectType : BodyNames, SubjectID : BodyNames,
     SubjectRelation : {"nil", "member"}]

PermissionDeleteRequests ==
    [type : {"PermissionDeleteRequest"}, ObjectNamespace : BodyNames, ObjectID : BodyNames,
     Relation : BodyNames, SubjectType : BodyNames, SubjectID : BodyNames]

\* request types of package request (request/request.go)
RequestPackageRequests ==
    [type : {"request.PermissionCheckRequest"}, SubjectType : BodyNames,
     SubjectID : BodyNames, Relation : BodyNames, ObjectNamespace : BodyNames,
     ObjectID : BodyNames]
    \cup [type : {"request.PermissionWriteRequest"}, ObjectNamespace : BodyNames,
          ObjectID : BodyNames, Relation : BodyNames, SubjectType : BodyNames,
          SubjectID : BodyNames, SubjectRelation : {"nil", "member"}]
    \cup [type : {"request.PermissionDeleteRequest"}, ObjectNamespace : BodyNames,
          ObjectID : BodyNames, Relation : BodyNames, SubjectType : BodyNames,
          SubjectID : BodyNames]
    \cup [type : {"request.PermissionReadRequest"}, ObjectNamespace : BodyNames,
          ObjectID : BodyNames]
    \cup [type : {"request.PermissionExpendRequest"}, ObjectNamespace : BodyNames,
          ObjectID : BodyNames, Relation : BodyNames]
    \cup [type : {"request.ListObjectsRequest"}, ObjectNamespace : BodyNames,
          Relation : BodyNames, SubjectType : BodyNames, SubjectID : BodyNames]

\* arguments of ReadPermissions, ExpandPermissions and ListObjects
ReadArguments == [type : {"read"}, namespace : PathNames, objectID : PathNames]

ExpandArguments ==
    [type : {"expand"}, namespace : PathNames, objectID : PathNames, relation : PathNames]

ListArguments ==
    [type : {"list"}, subjectType : PathNames, subjectID : PathNames,
     relation : PathNames, namespace : PathNames]

\* the order in which the fields are tested for ""
SubjectFirst == <<"SubjectType", "SubjectID", "Relation", "ObjectNamespace", "ObjectID">>
ObjectFirst == <<"ObjectNamespace", "ObjectID", "Relation", "SubjectType", "SubjectID">>

CheckOrder(type) ==
    CASE type = "PermissionCheckRequest"          -> SubjectFirst
      [] type = "PermissionWriteRequest"          -> ObjectFirst
      [] type = "PermissionDeleteRequest"         -> ObjectFirst
      [] type = "request.PermissionCheckRequest"  -> SubjectFirst
      [] type = "request.PermissionWriteRequest"  -> ObjectFirst
      [] type = "request.PermissionDeleteRequest" -> ObjectFirst
      [] type = "request.PermissionReadRequest"   -> <<"ObjectNamespace", "ObjectID">>
      [] type = "request.PermissionExpendRequest" ->
            <<"ObjectNamespace", "ObjectID", "Relation">>
      [] type = "request.ListObjectsRequest"      ->
            <<"SubjectType", "SubjectID", "Relation", "ObjectNamespace">>
      [] type = "read"                            -> <<"namespace", "objectID">>
      [] type = "expand"                          -> <<"namespace", "objectID", "relation">>
      [] type = "list"                            ->
            <<"subjectType", "subjectID", "relation", "namespace">>

\* variant that does not test the last field of the order
FirstEmptyButLast(r, order) ==
    IF \E i \in 1..(Len(order) - 1) : r[order[i]] = ""
    THEN order[CHOOSE i \in 1..(Len(order) - 1) :
                  r[order[i]] = "" /\ \A j \in 1..(i - 1) : r[order[j]] # ""]
    ELSE "none"

\* the field whose test fails first: a chain of if field == "" { return ... }
FirstEmpty(r, order) ==
    IF \E i \in 1..Len(order) : r[order[i]] = ""
    THEN order[CHOOSE i \in 1..Len(order) :
                  r[order[i]] = "" /\ \A j \in 1..(i - 1) : r[order[j]] # ""]
    ELSE "none"

\* text of the error for an empty field
Message(f) ==
    CASE f \in {"SubjectType", "subjectType"} -> "subjectType is required"
      [] f \in {"SubjectID", "subjectID"}     -> "subjectId is required"
      [] f \in {"Relation", "relation"}       -> "relation is required"
      [] f \in {"ObjectID", "objectID"}       -> "objectId is required"
      [] f = "ObjectNamespace"                -> "objectNamespace is required"
      [] f = "namespace"                      -> "namespace is required"

\* fmt.Errorf(msg): an error value made by this call
Errorf(msg) == [kind |-> "error", msg |-> msg, id |-> "new"]

\* the package-level error variables of package request
SentinelName(f) ==
    CASE f = "SubjectType"     -> "SubjectTypeRequired"
      [] f = "SubjectID"       -> "SubjectIdRequired"
      [] f = "Relation"        -> "RelationRequired"
      [] f = "ObjectID"        -> "ObjectIdRequired"
      [] f = "ObjectNamespace" -> "ObjectNameSpaceRequired"

Sentinel(f) == [kind |-> "error", msg |-> Message(f), id |-> SentinelName(f)]

\* fmt.Errorf("invalid request: %w", err)
InvalidRequest(err) == [kind |-> "invalid request", cause |-> err]

\* r.Validate() by the type of r
Validate(r) ==
    LET f == FirstEmpty(r, CheckOrder(r.type))
    IN  IF f = "none" THEN Nil
        ELSE IF r.type \in {"PermissionCheckRequest", "PermissionWriteRequest",
                            "PermissionDeleteRequest"}
             THEN Errorf(Message(f))
             ELSE Sentinel(f)

\* the tests of the string arguments of ReadPermissions, ExpandPermissions
\* and ListObjects
CheckArguments(a) ==
    LET f == FirstEmpty(a, CheckOrder(a.type))
    IN  IF f = "none" THEN Nil ELSE Errorf(Message(f))

(***************************************************************************)
(* The facade operations: validation, then doRequest                       *)
(***************************************************************************)
ReadPath(namespace, objectID) ==
    "/api/anamericano/read/" \o namespace \o "/" \o objectID

ExpandPath(namespace, objectID, relation) ==
    "/api/anamericano/expand/" \o namespace \o "/" \o objectID \o "/" \o relation

\* variant that puts the namespace first
ListObjectsPathNamespaceFirst(subjectType, subjectID, relation, namespace) ==
    "/api/anamericano/list/" \o namespace \o "/" \o subjectType \o "/" \o subjectID
        \o "/" \o relation

ListObjectsPath(subjectType, subjectID, relation, namespace) ==
    "/api/anamericano/list/" \o subjectType \o "/" \o subjectID \o "/" \o relation
        \o "/" \o namespace

\* the operation returns err without calling doRequest
FacadeFails(err) ==
    /\ pc' = "done"
    /\ result' = err
    /\ UNCHANGED <<attempt, lastErr, callerBody, jsonData, hasSink, sink, req>>
    /\ UNCHANGED <<clientVars, ctxVars, histVars, method, url>>

CheckPermission(r) ==
    /\ pc = "idle"
    /\ op' = "CheckPermission"
    /\ args' = r
    /\ IF r = NilRequest
       THEN FacadeFails(Errorf("permission check request is nil"))
       ELSE IF Validate(r) # Nil
       THEN FacadeFails(InvalidRequest(Validate(r)))
       ELSE DoRequest("POST", "/api/anamericano/check", "value", TRUE)

WritePermission(r) ==
    /\ pc = "idle"
    /\ op' = "WritePermission"
    /\ args' = r
    /\ IF r = NilRequest
       THEN FacadeFails(Errorf("permission write request is nil"))
       ELSE IF Validate(r) # Nil
       THEN FacadeFails(InvalidRequest(Validate(r)))
       ELSE DoRequest("POST", "/api/anamericano/write", "value", TRUE)

DeletePermission(r) ==
    /\ pc = "idle"
    /\ op' = "DeletePermission"
    /\ args' = r
    /\ IF r = NilRequest
       THEN FacadeFails(Errorf("permission delete request is nil"))
       ELSE IF Validate(r) # Nil
       THEN FacadeFails(InvalidRequest(Validate(r)))
       ELSE DoRequest("DELETE", "/api/anamericano/delete", "value", FALSE)

ReadPermissions(a) ==
    /\ pc = "idle"
    /\ op' = "ReadPermissions"
    /\ args' = a
    /\ IF CheckArguments(a) # Nil
       THEN FacadeFails(CheckArguments(a))
       ELSE DoRequest("GET", ReadPath(a.namespace, a.objectID), "nil", TRUE)

ExpandPermissions(a) ==
    /\ pc = "idle"
    /\ op' = "ExpandPermissions"
    /\ args' = a
    /\ IF CheckArguments(a) # Nil
       THEN FacadeFails(CheckArguments(a))
       ELSE DoRequest("GET", ExpandPath(a.namespace, a.objectID, a.relation), "nil", TRUE)

ListObjects(a) ==
    /\ pc = "idle"
    /\ op' = "ListObjects"
    /\ args' = a
    /\ IF CheckArguments(a) # Nil
       THEN FacadeFails(CheckArguments(a))
       ELSE DoRequest("GET",
                      ListObjectsPath(a.subjectType, a.subjectID, a.relation, a.namespace),
                      "nil", TRUE)

\* the first value the operation returns, by its return statements
FacadeReturn ==
    CASE op = "DeletePermission"                         -> "none"
      [] result.kind \in {"error", "invalid request"}    -> "nil"
      [] op \in {"CheckPermission", "WritePermission"}   ->
            IF result # Nil THEN "nil" ELSE "pointer"
      [] OTHER                                           -> "slice"

\* a client with no authenticator or a fixed token, and one retry
InitFacade ==
    /\ Init
    /\ authKind \in {"nil", "bearer"}
    /\ authToken # "t2"
    /\ optsArg = OnlyMaxRetries(1)

NextFacade ==
    \/ \E r \in PermissionCheckRequests \cup {NilRequest} : CheckPermission(r)
    \/ \E r \in PermissionWriteRequests \cup {NilRequest} : WritePermission(r)
    \/ \E r \in PermissionDeleteRequests \cup {NilRequest} : DeletePermission(r)
    \/ \E a \in ReadArguments : ReadPermissions(a)
    \/ \E a \in ExpandArguments : ExpandPermissions(a)
    \/ \E a \in ListArguments : ListObjects(a)
    \/ BackoffTimer
    \/ BackoffCtxDone
    \/ SendUnauthenticated
    \/ \E p \in ProviderResults : StampAndSend(p)
    \/ \E p \in ProviderResults : StampFails(p)
    \/ \E f \in TransportFailures : TransportFails(f)
    \/ \E o \in Responses : Respond(o)
    \/ \E e \in {"canceled", "deadline exceeded"} : CtxCancel(e)

SpecFacade == InitFacade /\ [][NextFacade]_vars

\* the request or the arguments lack a required value
BadArguments ==
    \/ args = NilRequest
    \/ \E i \in 1..Len(CheckOrder(args.type)) : args[CheckOrder(args.type)[i]] = ""

(***************************************************************************)
(* C22: for each facade operation, a nil request or a request with a       *)
(* required field empty returns a non-nil error and no result before the   *)
(* executor runs: the authenticator is not invoked and no transport        *)
(* attempt is made.                                                        *)
(***************************************************************************)
C22_InvalidRequestNeverSent ==
    (op # "none" /\ BadArguments) =>
        /\ pc = "done"
        /\ result # Nil
        /\ result.kind \in {"error", "invalid request"}
        /\ FacadeReturn \in {"nil", "none"}
        /\ started = 0
        /\ stamps = 0
        /\ sends = 0
        /\ req = NoRequest
        /\ jsonData = "none"

C22_Witness ==
    /\ op = "ListObjects"
    /\ args = [type |-> "list", subjectType |-> "a", subjectID |-> "b", relation |-> "a",
               namespace |-> ""]
    /\ authKind = "bearer"
    /\ pc = "done"
    /\ result = Errorf("namespace is required")

(***************************************************************************)
(* Validate on its own, for a request of any type of both packages         *)
(***************************************************************************)
InitValidate ==
    /\ op = "Validate"
    /\ args \in PermissionCheckRequests \cup PermissionWriteRequests
                \cup PermissionDeleteRequests \cup RequestPackageRequests
    /\ method = ""
    /\ url = ""
    /\ authKind = "nil"
    /\ authToken = ""
    /\ authCtx = "nil"
    /\ optsArg = NilOptions
    /\ options = NewClientOptions(optsArg)
    /\ pc = "idle"
    /\ attempt = 0
    /\ lastErr = Nil
    /\ callerBody = "nil"
    /\ jsonData = "none"
    /\ hasSink = FALSE
    /\ sink = "untouched"
    /\ req = NoRequest
    /\ result = Nil
    /\ ctxToken = "absent"
    /\ ctxErr = "none"
    /\ stamps = 0
    /\ provided = NotAsked
    /\ sends = 0
    /\ started = 0
    /\ lastOut = NoOutcome
    /\ uniform = NoClass
    /\ prev500 = TRUE
    /\ retryableOnly = TRUE
    /\ cancelledAt = "never"
    /\ answers = {}
    /\ installed = Installed(authKind, authToken, "NewClient")
    /\ waits = <<>>
    /\ pool = NoPool

\* err := r.Validate(); result holds err
ValidateRequest ==
    /\ pc = "idle"
    /\ op = "Validate"
    /\ result' = Validate(args)
    /\ pc' = "done"
    /\ UNCHANGED <<attempt, lastErr, callerBody, jsonData, hasSink, sink, req>>
    /\ UNCHANGED <<clientVars, ctxVars, histVars, facadeVars>>

NextValidate == ValidateRequest

SpecValidate == InitValidate /\ [][NextValidate]_vars

\* the fields of request r in the order the claim gives for its type
ClaimedOrder(r) ==
    IF r.type \in {"PermissionCheckRequest", "request.PermissionCheckRequest",
                   "request.ListObjectsRequest"}
    THEN SelectSeq(SubjectFirst, LAMBDA f : f \in DOMAIN r)
    ELSE SelectSeq(ObjectFirst, LAMBDA f : f \in DOMAIN r)

(***************************************************************************)
(* C23: for every request type, Validate returns nil iff every required    *)
(* field is non-empty; otherwise it returns exactly the package-level      *)
(* error variable of the first empty field in the check order of the type, *)
(* comparable by identity; Validate does not modify the request.           *)
(***************************************************************************)
C23_ValidateReturnsSentinel ==
    [][(pc = "idle" /\ pc' = "done") =>
          LET order == ClaimedOrder(args)
              empty == {i \in 1..Len(order) : args[order[i]] = ""}
          IN  /\ result' = Nil <=> empty = {}
              /\ empty # {} =>
                    LET first == order[CHOOSE i \in empty : \A j \in empty : i <= j]
                    IN  /\ result'.msg = Message(first)
                        /\ result'.id = SentinelName(first)
              /\ args' = args]_vars

\* method of the operation called, by the table of the HTTP surface
SurfaceMethod ==
    CASE op \in {"CheckPermission", "WritePermission"} -> "POST"
      [] op = "DeletePermission"                       -> "DELETE"
      [] OTHER                                         -> "GET"

\* path of the operation called, by the table of the HTTP surface under prefix
SurfacePath(prefix) ==
    CASE op = "CheckPermission"   -> prefix \o "/check"
      [] op = "WritePermission"   -> prefix \o "/write"
      [] op = "DeletePermission"  -> prefix \o "/delete"
      [] op = "ReadPermissions"   ->
            prefix \o "/read/" \o args.namespace \o "/" \o args.objectID
      [] op = "ExpandPermissions" ->
            prefix \o "/expand/" \o args.namespace \o "/" \o args.objectID
                \o "/" \o args.relation
      [] op = "ListObjects"       ->
            prefix \o "/list/" \o args.subjectType \o "/" \o args.subjectID
                \o "/" \o args.relation \o "/" \o args.namespace

(***************************************************************************)
(* C24: each facade operation sends the method and the path of the HTTP    *)
(* surface table against the fixed base URL: POST /api/permissions/check,  *)
(* POST /api/permissions/write, DELETE /api/permissions/delete,            *)
(* GET /api/permissions/read/{namespace}/{objectId},                       *)
(* GET /api/permissions/expand/{namespace}/{objectId}/{relation},          *)
(* GET /api/permissions/list/{subjectType}/{subjectId}/{relation}/         *)
(* {namespace}.                                                            *)
(***************************************************************************)
C24_SurfaceTable ==
    (op # "none" /\ req.acquired) =>
        /\ req.method = SurfaceMethod
        /\ req.uri = "https://accounts.ana.st" \o SurfacePath("/api/permissions")

\* C24 as amended: the same methods and path patterns under /api/anamericano
C24_SurfaceTableAnamericano ==
    (op # "none" /\ req.acquired) =>
        /\ req.method = SurfaceMethod
        /\ req.uri = "https://accounts.ana.st" \o SurfacePath("/api/anamericano")

C24_Witness ==
    /\ op = "ListObjects"
    /\ attempt = 1
    /\ req.acquired
    /\ req.method = "GET"
    /\ req.uri = "https://accounts.ana.st/api/anamericano/list/a/b/a/b"

Permissions ==
    [type : {"Permission"}, ObjectNamespace : BodyNames, ObjectID : BodyNames,
     Relation : BodyNames, SubjectType : BodyNames, SubjectID : BodyNames,
     SubjectRelation : {<<>>, <<"">>, <<"member">>}]

\* variant that appends the subject relation only when it is not empty
PermissionStringOmitsEmpty(p) ==
    p.ObjectNamespace \o ":" \o p.ObjectID \o "#" \o p.Relation \o "@" \o p.SubjectType
        \o ":" \o p.SubjectID
        \o (IF p.SubjectRelation # <<>> /\ p.SubjectRelation # <<"">>
            THEN "#" \o p.SubjectRelation[1] ELSE "")

\* p.String()
PermissionString(p) ==
    IF p.SubjectRelation # <<>>
    THEN p.ObjectNamespace \o ":" \o p.ObjectID \o "#" \o p.Relation \o "@"
            \o p.SubjectType \o ":" \o p.SubjectID \o "#" \o p.SubjectRelation[1]
    ELSE p.ObjectNamespace \o ":" \o p.ObjectID \o "#" \o p.Relation \o "@"
            \o p.SubjectType \o ":" \o p.SubjectID

InitString ==
    /\ op = "String"
    /\ args \in Permissions
    /\ method = ""
    /\ url = ""
    /\ authKind = "nil"
    /\ authToken = ""
    /\ authCtx = "nil"
    /\ optsArg = NilOptions
    /\ options = NewClientOptions(optsArg)
    /\ pc = "idle"
    /\ attempt = 0
    /\ lastErr = Nil
    /\ callerBody = "nil"
    /\ jsonData = "none"
    /\ hasSink = FALSE
    /\ sink = "untouched"
    /\ req = NoRequest
    /\ result = Nil
    /\ ctxToken = "absent"
    /\ ctxErr = "none"
    /\ stamps = 0
    /\ provided = NotAsked
    /\ sends = 0
    /\ started = 0
    /\ lastOut = NoOutcome
    /\ uniform = NoClass
    /\ prev500 = TRUE
    /\ retryableOnly = TRUE
    /\ cancelledAt = "never"
    /\ answers = {}
    /\ installed = Installed(authKind, authToken, "NewClient")
    /\ waits = <<>>
    /\ pool = NoPool

\* s := p.String(); answers holds s
StringPermission ==
    /\ op = "String"
    /\ answers = {}
    /\ answers' = {<<"String", PermissionString(args)>>}
    /\ UNCHANGED <<clientVars, callVars, ctxVars, facadeVars>>
    /\ UNCHANGED <<stamps, provided, sends, started, lastOut, uniform, prev500, retryableOnly,
                   cancelledAt, installed, waits, pool>>

NextString == StringPermission

SpecString == InitString /\ [][NextString]_vars

(***************************************************************************)
(* C26: Permission.String renders                                          *)
(* namespace:objectId#relation@subjectType:subjectId and appends "#" and   *)
(* the subject relation if and only if SubjectRelation is not nil, for     *)
(* every Permission; it does not modify the Permission.                    *)
(***************************************************************************)
C26_StringRendersTuple ==
    [][answers' # answers =>
          LET tuple == args.ObjectNamespace \o ":" \o args.ObjectID \o "#" \o args.Relation
                          \o "@" \o args.SubjectType \o ":" \o args.SubjectID
          IN  /\ args.SubjectRelation = <<>> => answers' = {<<"String", tuple>>}
              /\ args.SubjectRelation # <<>> =>
                    answers' = {<<"String", tuple \o "#" \o args.SubjectRelation[1]>>}
              /\ args' = args]_vars

C26_Witness ==
    /\ op = "String"
    /\ args.SubjectRelation = <<"">>
    /\ answers = {<<"String", "a:a#a@a:a#">>}

(***************************************************************************)
(* C27: whether a non-2xx response with a decodable error body ends the    *)
(* call or is retried is decided by its HTTP status, whatever the body's   *)
(* status field holds: an HTTP status in [400,500) other than 429 ends the *)
(* call after that attempt, an HTTP status of 429 or 5xx is retried.       *)
(***************************************************************************)
C27_DecisionByHTTPStatus ==
    [][(pc = "inflight" /\ pc' # "inflight" /\ lastOut'.t = "resp"
          /\ lastOut'.body = "valid" /\ ~IsSuccess(lastOut'.status)) =>
          /\ (lastOut'.status >= 400 /\ lastOut'.status < 500
                /\ lastOut'.status # StatusTooManyRequests) =>
                (pc' = "done" /\ attempt' = attempt /\ result'.kind = "APIError")
          /\ (lastOut'.status = StatusTooManyRequests
                \/ (lastOut'.status >= 500 /\ lastOut'.status < 600)) =>
                (attempt' = attempt + 1 /\ lastErr'.kind = "APIError"
                   /\ (pc' = "done" => result' = MaxRetriesExceeded(lastErr')))]_vars

(***************************************************************************)
(* doRequest on a client built with any MaxRetries NewClient stores        *)
(***************************************************************************)
\* MaxRetries as supplied to NewClient: negative, zero (takes the default), positive
SuppliedMaxRetries == {0 - 1, 0, 1}

InitMaxRetries ==
    /\ op = "none"
    /\ args = NoArgs
    /\ method = ""
    /\ url = ""
    /\ authKind \in {"nil", "bearer"}
    /\ authToken \in (IF authKind = "bearer" THEN {"", "t1"} ELSE {""})
    /\ authCtx = "nil"
    /\ optsArg \in {OnlyMaxRetries(m) : m \in SuppliedMaxRetries}
    /\ options = NewClientOptions(optsArg)
    /\ pc = "idle"
    /\ attempt = 0
    /\ lastErr = Nil
    /\ callerBody = "nil"
    /\ jsonData = "none"
    /\ hasSink = FALSE
    /\ sink = "untouched"
    /\ req = NoRequest
    /\ result = Nil
    /\ ctxToken = "absent"
    /\ ctxErr = "none"
    /\ stamps = 0
    /\ provided = NotAsked
    /\ sends = 0
    /\ started = 0
    /\ lastOut = NoOutcome
    /\ uniform = NoClass
    /\ prev500 = TRUE
    /\ retryableOnly = TRUE
    /\ cancelledAt = "never"
    /\ answers = {}
    /\ installed = Installed(authKind, authToken, "NewClient")
    /\ waits = <<>>
    /\ pool = NoPool

SpecMaxRetries == InitMaxRetries /\ [][Next]_vars

(***************************************************************************)
(* C28: for every MaxRetries NewClient stores (zero becomes 3, a negative  *)
(* value is kept), a doRequest call whose body was serialized makes at     *)
(* least one attempt before it returns a failure, and a retry-exhaustion   *)
(* error wraps a cause that is not nil.                                    *)
(***************************************************************************)
C28_OneAttemptBeforeFailure ==
    /\ (Returned /\ result # Nil /\ result # MarshalError) => started >= 1
    /\ (Returned /\ result.kind = "max retries exceeded") => result.cause # Nil

(***************************************************************************)
(* C29: once the caller context is cancelled no attempt with index >= 1    *)
(* begins; when the cancellation happened during an attempt that then      *)
(* failed retryably, the backoff wait that follows ends the call with the  *)
(* context's error, and neither the authenticator nor the transport is     *)
(* invoked again.                                                          *)
(***************************************************************************)
C29_NoAttemptAfterCancel ==
    [][/\ (pc = "backoff" /\ pc' = "attempt") => ctxErr = "none"
       /\ (cancelledAt \in {"attempt", "inflight"} /\ pc = "backoff" /\ pc' # "backoff") =>
             /\ pc' = "done"
             /\ result' = CtxError(ctxErr)
             /\ stamps' = stamps
             /\ sends' = sends
             /\ started' = started]_vars

C29_Witness ==
    /\ cancelledAt = "inflight"
    /\ lastOut = TransportFailed("timeout")
    /\ Returned
    /\ result = CtxError("canceled")
    /\ attempt = 1
    /\ sends = 1

(***************************************************************************)
(* C30: on a client that has an authenticator every attempt invokes the    *)
(* authenticator before the transport: a request is sent only in a step    *)
(* that stamped it, with the one Authorization header that stamp produced, *)
(* and an attempt whose stamp failed sends nothing.                        *)
(***************************************************************************)
C30_StampBeforeTransport ==
    [][/\ (authKind # "nil" /\ sends' = sends + 1) =>
             /\ stamps' = stamps + 1
             /\ LET st == AuthenticateFastHTTP(authKind, authToken, authCtx,
                                               CtxValue(authCtx, ctxToken), provided')
                IN  st.ok /\ req'.authorization = <<st.header>>
       /\ (authKind # "nil" /\ stamps' = stamps + 1 /\ sends' = sends) =>
             /\ lastOut'.t = "authfail"
             /\ pc' # "inflight"
             /\ ~req'.acquired
       /\ (authKind # "nil" /\ pc' = "inflight") => Len(req'.authorization) = 1
       /\ authKind # "nil" => sends' <= stamps']_vars

C30_Witness ==
    /\ authKind = "dynamic"
    /\ pc = "inflight"
    /\ stamps = 2
    /\ sends = 1
    /\ lastOut.t = "authfail"
    /\ req.authorization = <<"Bearer t1">>

(***************************************************************************)
(* doRequest under the scheduling of its goroutine: a started call keeps   *)
(* running, the timer of a backoff wait fires and DoTimeout returns        *)
(***************************************************************************)
\* the steps doRequest takes by itself once it was called
Executor ==
    \/ BackoffTimer
    \/ BackoffCtxDone
    \/ SendUnauthenticated
    \/ \E p \in ProviderResults : StampAndSend(p)
    \/ \E p \in ProviderResults : StampFails(p)
    \/ \E f \in TransportFailures : TransportFails(f)
    \/ \E o \in Responses : Respond(o)

InitLive ==
    /\ Init
    /\ authKind \in {"nil", "dynamic"}

SpecLive == InitLive /\ [][Next]_vars /\ WF_vars(Executor)

(***************************************************************************)
(* C31: whatever the transport answers, a doRequest call returns after at  *)
(* most maxRetries+1 attempts; the attempts have the indices 0, 1, 2, ...  *)
(* up to maxRetries at most, in this order, without gap or repetition, and *)
(* attempt k+1 starts only after attempt k ended in an error the loop      *)
(* took as retryable.                                                      *)
(***************************************************************************)
C31_BoundedSequentialAttempts ==
    /\ [](started <= maxRetries + 1)
    /\ [][started' = started + 1 =>
             /\ pc = "attempt"
             /\ attempt = started
             /\ attempt <= maxRetries
             /\ attempt >= 1 => (lastErr # Nil /\ ~IsTerminal(lastErr) /\ lastOut # NoOutcome)]_vars
    /\ [][attempt' # attempt =>
             /\ attempt' = attempt + 1
             /\ started' = attempt'
             /\ lastErr' # Nil /\ ~IsTerminal(lastErr')]_vars
    /\ (pc # "idle") ~> (pc = "done")

C31_Witness ==
    /\ Returned
    /\ started = maxRetries + 1
    /\ maxRetries = MaxRetriesBound
    /\ result = MaxRetriesExceeded(TransportError("timeout"))

(***************************************************************************)
(* doRequest on clients built with different retry delays                  *)
(***************************************************************************)
\* RetryDelay as supplied to NewClient, in seconds: zero takes the default
SuppliedRetryDelays == {0, 2, 5}

InitBackoff ==
    /\ op = "none"
    /\ args = NoArgs
    /\ method = ""
    /\ url = ""
    /\ authKind \in {"nil", "bearer"}
    /\ authToken \in (IF authKind = "bearer" THEN {"", "t1"} ELSE {""})
    /\ authCtx = "nil"
    /\ optsArg \in {[OnlyMaxRetries(MaxRetriesBound) EXCEPT !.RetryDelay = d] :
                       d \in SuppliedRetryDelays}
    /\ options = NewClientOptions(optsArg)
    /\ pc = "idle"
    /\ attempt = 0
    /\ lastErr = Nil
    /\ callerBody = "nil"
    /\ jsonData = "none"
    /\ hasSink = FALSE
    /\ sink = "untouched"
    /\ req = NoRequest
    /\ result = Nil
    /\ ctxToken = "absent"
    /\ ctxErr = "none"
    /\ stamps = 0
    /\ provided = NotAsked
    /\ sends = 0
    /\ started = 0
    /\ lastOut = NoOutcome
    /\ uniform = NoClass
    /\ prev500 = TRUE
    /\ retryableOnly = TRUE
    /\ cancelledAt = "never"
    /\ answers = {}
    /\ installed = Installed(authKind, authToken, "NewClient")
    /\ waits = <<>>
    /\ pool = NoPool

SpecBackoff == InitBackoff /\ [][Next]_vars

(***************************************************************************)
(* C32: no wait precedes attempt 0, and when attempt k >= 1 starts (its    *)
(* stamp or its send) exactly k waits have elapsed in the call, the j-th   *)
(* of them of retryDelay * j: retryDelay, 2*retryDelay, ..., k*retryDelay. *)
(***************************************************************************)
C32_LinearBackoff ==
    [][/\ started' = started + 1 =>
             /\ Len(waits) = attempt
             /\ \A j \in 1..attempt : waits[j] = options.RetryDelay * j
       /\ waits' # waits => (pc = "backoff" /\ started' = started /\ sends' = sends
                               /\ stamps' = stamps)]_vars

C32_Witness ==
    /\ options.RetryDelay = 2
    /\ pc = "inflight"
    /\ attempt = 2
    /\ waits = <<2, 4>>

(***************************************************************************)
(* C33: with a DynamicTokenAuth every attempt of a call asks the token     *)
(* provider exactly once, with the context of the call (a background       *)
(* context when none was injected); the request of the attempt carries     *)
(* "Bearer " + the token that fetch returned, and a provider error or an   *)
(* empty token makes the attempt an authentication failure that sends      *)
(* nothing.                                                                *)
(***************************************************************************)
C33_ProviderAskedPerAttempt ==
    [][(authKind = "dynamic" /\ started' = started + 1) =>
          /\ stamps' = stamps + 1
          /\ stamps = started
          /\ authCtx \in {"call", "nil"}
          /\ provided' \in ProviderResults
          /\ IF provided'.err \/ provided'.token = ""
             THEN /\ lastOut'.t = "authfail"
                  /\ sends' = sends
                  /\ ~req'.acquired
             ELSE /\ pc' = "inflight"
                  /\ sends' = sends + 1
                  /\ req'.authorization = <<"Bearer " \o provided'.token>>]_vars

(***************************************************************************)
(* C34: the caller's result object is written only when a 2xx response     *)
(* with a non-empty body arrives and a result object was supplied; a 2xx   *)
(* with an empty body, or without a result object, succeeds and leaves it  *)
(* as it was, and no non-2xx response, transport failure or                *)
(* authentication failure writes it.                                       *)
(***************************************************************************)
C34_SinkWrittenOnlyOn2xx ==
    [][/\ sink' # sink =>
             /\ pc = "inflight"
             /\ hasSink
             /\ lastOut'.t = "resp"
             /\ IsSuccess(lastOut'.status)
             /\ lastOut'.body # "empty"
       /\ (pc = "inflight" /\ pc' # "inflight" /\ lastOut'.t = "resp"
             /\ IsSuccess(lastOut'.status) /\ (~hasSink \/ lastOut'.body = "empty")) =>
             /\ pc' = "done"
             /\ result' = Nil
             /\ sink' = sink
       /\ (pc' # pc /\ lastOut'.t \in {"neterr", "authfail"}) => sink' = sink]_vars

C34_Witness ==
    /\ hasSink
    /\ sink = "decoded"
    /\ lastOut = Responded(200, "valid", 0)
    /\ Returned
    /\ result = Nil
    /\ attempt = 1

(***************************************************************************)
(* C35: every attempt acquires one pooled request and one pooled response  *)
(* and releases each of them once before the next attempt starts or the    *)
(* call returns, whatever the outcome of the attempt: between attempts and *)
(* after the return no pooled object is held, and never more than one pair *)
(* is held by the call.                                                    *)
(***************************************************************************)
C35_PooledObjectsReleased ==
    /\ pool.acquires = 2 * started
    /\ pool.requests \in {0, 1}
    /\ pool.responses = pool.requests
    /\ pool.releases + pool.requests + pool.responses = pool.acquires
    /\ pc # "inflight" => (pool.requests = 0 /\ pool.responses = 0)
    /\ req.acquired <=> pool.requests = 1

C35_Witness ==
    /\ Returned
    /\ lastOut.t = "resp"
    /\ pool = [requests |-> 0, responses |-> 0, acquires |-> 6, releases |-> 6]

(***************************************************************************)
(* The paths of ReadPermissions, ExpandPermissions and ListObjects on      *)
(* their own                                                               *)
(***************************************************************************)
\* non-empty argument strings, with and without '/'
SlashNames == {"a", "a/a"}

\* the argument tuples of the three operations
PathArguments ==
    [type : {"read"}, namespace : SlashNames, objectID : SlashNames]
    \cup [type : {"expand"}, namespace : SlashNames, objectID : SlashNames,
          relation : SlashNames]
    \cup [type : {"list"}, subjectType : SlashNames, subjectID : SlashNames,
          relation : SlashNames, namespace : SlashNames]

\* path := fmt.Sprintf(...) of the operation called with a
PathOf(a) ==
    CASE a.type = "read"   -> ReadPath(a.namespace, a.objectID)
      [] a.type = "expand" -> ExpandPath(a.namespace, a.objectID, a.relation)
      [] a.type = "list"   -> ListObjectsPath(a.subjectType, a.subjectID, a.relation,
                                              a.namespace)

\* two calls are about to be made, with the arguments args.first and args.second
InitPaths ==
    /\ op = "paths"
    /\ args \in [first : PathArguments, second : PathArguments]
    /\ method = ""
    /\ url = ""
    /\ authKind = "nil"
    /\ authToken = ""
    /\ authCtx = "nil"
    /\ optsArg = NilOptions
    /\ options = NewClientOptions(optsArg)
    /\ pc = "idle"
    /\ attempt = 0
    /\ lastErr = Nil
    /\ callerBody = "nil"
    /\ jsonData = "none"
    /\ hasSink = FALSE
    /\ sink = "untouched"
    /\ req = NoRequest
    /\ result = Nil
    /\ ctxToken = "absent"
    /\ ctxErr = "none"
    /\ stamps = 0
    /\ provided = NotAsked
    /\ sends = 0
    /\ started = 0
    /\ lastOut = NoOutcome
    /\ uniform = NoClass
    /\ prev500 = TRUE
    /\ retryableOnly = TRUE
    /\ cancelledAt = "never"
    /\ answers = {}
    /\ installed = Installed(authKind, authToken, "NewClient")
    /\ waits = <<>>
    /\ pool = NoPool

\* both calls build their path; answers holds the pairs <<arguments, path>>
BuildPaths ==
    /\ op = "paths"
    /\ answers = {}
    /\ answers' = {<<args.first, PathOf(args.first)>>, <<args.second, PathOf(args.second)>>}
    /\ UNCHANGED <<clientVars, callVars, ctxVars, facadeVars>>
    /\ UNCHANGED <<stamps, provided, sends, started, lastOut, uniform, prev500, retryableOnly,
                   cancelledAt, installed, waits, pool>>

NextPaths == BuildPaths

SpecPaths == InitPaths /\ [][NextPaths]_vars

(***************************************************************************)
(* C36: the path built by ReadPermissions, ExpandPermissions and           *)
(* ListObjects is injective in the arguments: two calls whose operation or *)
(* tuple of non-empty argument strings (which may contain '/') differ      *)
(* never build the same path.                                              *)
(***************************************************************************)
C36_PathsInjective ==
    \A x, y \in answers : x[1] # y[1] => x[2] # y[2]

====
